---- MODULE Spec2Model ----
(***************************************************************************)
(* Event log store and analytics engine of app/api/routes/logs.py:         *)
(* the two in-memory collections, the ingest / delete / clear handlers,    *)
(* the filter / sort / paginate query pipeline and the statistics.         *)
(*                                                                         *)
(* Python strings are sequences of one-character strings, so that          *)
(* lower-casing, substring search, lexicographic order and the parsing of  *)
(* ISO timestamps are computed, not assumed.  Optional[str] is a sequence  *)
(* of length 0 (None) or 1 (the string).                                   *)
(***************************************************************************)
EXTENDS Integers, Sequences, FiniteSets, TLC

VARIABLES comment_logs_db, dm_logs_db, issued, now, set_order, last, pc, loc

vars == <<comment_logs_db, dm_logs_db, issued, now, set_order, last, pc, loc>>

(***************************************************************************)
(* Bounds of the model.                                                    *)
(***************************************************************************)
\* number of identifiers uuid4 can hand out in one run
MaxIds == 2
\* ticks of the clock per calendar day
TicksPerDay == 2
\* how many ticks the clock advances during one run
MaxTicks == 1
\* largest collection a query is run on
MaxStore == 2

(***************************************************************************)
(* Strings.                                                                *)
(***************************************************************************)
Digits == <<"0", "1", "2", "3", "4", "5", "6", "7", "8", "9">>

IsDigit(c) == \E i \in 1..Len(Digits) : Digits[i] = c

DigitVal(c) == (CHOOSE i \in 1..Len(Digits) : Digits[i] = c) - 1

\* code point order of the characters the model uses
Alphabet ==
    <<"+", "-", ".">> \o Digits \o
    <<"A", "B", "C", "D", "E", "F", "G", "H", "I", "J", "K", "L", "M",
      "N", "O", "P", "Q", "R", "S", "T", "U", "V", "W", "X", "Y", "Z">> \o
    <<"a", "b", "c", "d", "e", "f", "g", "h", "i", "j", "k", "l", "m",
      "n", "o", "p", "q", "r", "s", "t", "u", "v", "w", "x", "y", "z">>

CharOrd(c) == CHOOSE i \in 1..Len(Alphabet) : Alphabet[i] = c

UpperA == CharOrd("A")

\* str.lower() on one character
LowerChar(c) ==
    IF CharOrd(c) >= UpperA /\ CharOrd(c) < UpperA + 26
    THEN Alphabet[CharOrd(c) + 26]
    ELSE c

\* str.lower()
Lower(s) == [i \in 1..Len(s) |-> LowerChar(s[i])]

\* q in s
Contains(s, q) ==
    \E i \in 0..(Len(s) - Len(q)) : SubSeq(s, i + 1, i + Len(q)) = q

\* s < t for two Python strings
StrLess(s, t) ==
    \E i \in 1..(Len(t)) :
        /\ \A j \in 1..(i - 1) : j <= Len(s) /\ s[j] = t[j]
        /\ \/ i = Len(s) + 1
           \/ i <= Len(s) /\ CharOrd(s[i]) < CharOrd(t[i])

\* Python's None and a present value of an Optional field
None == << >>
Some(s) == << s >>

\* truthiness of an Optional[str]: None and "" are falsy
Truthy(o) == o # None /\ o[1] # << >>

(***************************************************************************)
(* Timestamps.  An ISO text is "dd" (a date), "ddTh" (date and time of     *)
(* day) or "ddTh+0" (the same with a UTC offset); dd is the day number and *)
(* h the tick within the day.  A parsed datetime is naive or aware.        *)
(***************************************************************************)
IsDate(s) == Len(s) >= 2 /\ IsDigit(s[1]) /\ IsDigit(s[2])

IsTime(s) ==
    /\ Len(s) >= 4
    /\ s[3] = "T"
    /\ IsDigit(s[4])
    /\ DigitVal(s[4]) < TicksPerDay

IsOffset(s) == Len(s) = 6 /\ s[5] = "+" /\ s[6] = "0"

\* datetime.fromisoformat(s) does not raise ValueError
IsoValid(s) ==
    /\ IsDate(s)
    /\ \/ Len(s) = 2
       \/ Len(s) = 4 /\ IsTime(s)
       \/ IsTime(s) /\ IsOffset(s)

\* datetime.fromisoformat(s) of a valid text
fromisoformat(s) ==
    [aware |-> Len(s) = 6,
     at    |-> ((10 * DigitVal(s[1]) + DigitVal(s[2])) * TicksPerDay)
               + (IF Len(s) >= 4 THEN DigitVal(s[4]) ELSE 0)]

\* datetime.utcnow() is naive
utcnow == [aware |-> FALSE, at |-> now]

\* x >= y on datetimes raises TypeError when exactly one of them is aware
Comparable(x, y) == x.aware = y.aware

\* now.replace(hour=0, minute=0, second=0, microsecond=0)
StartOfDay(d) == [aware |-> d.aware, at |-> d.at - (d.at % TicksPerDay)]

\* d - timedelta(days=n)
MinusDays(d, n) == [aware |-> d.aware, at |-> d.at - n * TicksPerDay]

\* datetime.isoformat() of a naive datetime of the model's range
isoformat(d) ==
    <<Digits[((d.at \div TicksPerDay) \div 10) + 1],
      Digits[((d.at \div TicksPerDay) % 10) + 1],
      "T",
      Digits[(d.at % TicksPerDay) + 1]>>

(***************************************************************************)
(* Field limits of the request models.                                     *)
(***************************************************************************)
MaxUrlLen == 500
MaxNameLen == 100
MaxTextLen == 5000
MaxRuleNameLen == 200
MaxMessageLen == 1000
MaxRetryCount == 10

DMStatusValues == {"delivered", "pending", "failed"}

LenIn(s, lo, hi) == Len(s) >= lo /\ Len(s) <= hi

OptLenIn(o, hi) == o = None \/ Len(o[1]) <= hi

\* the fields of CommentLog and of DMLog that have no default
CommentLogRequired ==
    {"timestamp", "post_url", "commenter_username", "commenter_user_id",
     "comment_text", "reply_sent", "rule_id", "rule_name", "target_account"}

DMLogRequired ==
    {"sent_at", "recipient_username", "recipient_user_id", "message",
     "status", "rule_id", "rule_name", "target_account"}

\* faulty validation: no validator on the timestamp
CommentLogValid_AnyTimestamp(p) ==
    /\ CommentLogRequired \subseteq DOMAIN p
    /\ LenIn(p.post_url, 1, MaxUrlLen)
    /\ LenIn(p.commenter_username, 1, MaxNameLen)
    /\ LenIn(p.commenter_user_id, 1, MaxNameLen)
    /\ LenIn(p.comment_text, 1, MaxTextLen)
    /\ OptLenIn(p.reply_text, MaxTextLen)
    /\ LenIn(p.rule_id, 1, MaxNameLen)
    /\ LenIn(p.rule_name, 1, MaxRuleNameLen)
    /\ LenIn(p.target_account, 1, MaxNameLen)
    /\ OptLenIn(p.error_message, MaxMessageLen)

\* CommentLog(**body) validates
CommentLogValid(p) ==
    /\ CommentLogRequired \subseteq DOMAIN p
    /\ IsoValid(p.timestamp)
    /\ LenIn(p.post_url, 1, MaxUrlLen)
    /\ LenIn(p.commenter_username, 1, MaxNameLen)
    /\ LenIn(p.commenter_user_id, 1, MaxNameLen)
    /\ LenIn(p.comment_text, 1, MaxTextLen)
    /\ OptLenIn(p.reply_text, MaxTextLen)
    /\ LenIn(p.rule_id, 1, MaxNameLen)
    /\ LenIn(p.rule_name, 1, MaxRuleNameLen)
    /\ LenIn(p.target_account, 1, MaxNameLen)
    /\ OptLenIn(p.error_message, MaxMessageLen)

\* DMLog(**body) validates
DMLogValid(p) ==
    /\ DMLogRequired \subseteq DOMAIN p
    /\ IsoValid(p.sent_at)
    /\ LenIn(p.recipient_username, 1, MaxNameLen)
    /\ LenIn(p.recipient_user_id, 1, MaxNameLen)
    /\ LenIn(p.message, 1, MaxMessageLen)
    /\ p.status \in DMStatusValues
    /\ LenIn(p.rule_id, 1, MaxNameLen)
    /\ LenIn(p.rule_name, 1, MaxRuleNameLen)
    /\ LenIn(p.target_account, 1, MaxNameLen)
    /\ OptLenIn(p.error_message, MaxMessageLen)
    /\ p.retry_count >= 0 /\ p.retry_count <= MaxRetryCount

(***************************************************************************)
(* Request bodies the automation service sends.                            *)
(***************************************************************************)
\* the texts uuid4 can return
Ids == {<<"u", Digits[i + 1]>> : i \in 1..MaxIds}

Comment(id, ts, sent, err, rid, rname, acct) ==
    [id |-> id, timestamp |-> ts, post_url |-> <<"p">>,
     commenter_username |-> <<"b", "o">>, commenter_user_id |-> <<"7">>,
     comment_text |-> <<"H", "i">>, reply_sent |-> sent,
     reply_text |-> IF sent THEN Some(<<"o", "k">>) ELSE None,
     rule_id |-> rid, rule_name |-> rname, target_account |-> acct,
     error_message |-> err]

DM(id, ts, st, err, rid, rname, acct, retries) ==
    [id |-> id, sent_at |-> ts, recipient_username |-> <<"a", "l">>,
     recipient_user_id |-> <<"8">>, message |-> <<"y", "o">>, status |-> st,
     rule_id |-> rid, rule_name |-> rname, target_account |-> acct,
     error_message |-> err, retry_count |-> retries]

\* the body without one of its fields
Omit(body, field) == [f \in DOMAIN body \ {field} |-> body[f]]

CommentBodies ==
    { Omit(Comment(<< >>, <<"4", "0", "T", "0">>, TRUE, None,
                   <<"r", "1">>, <<"R", "1">>, <<"A", "1">>), "timestamp"),
      Comment(<< >>, <<"4", "0", "T", "0">>, TRUE, None,
              <<"r", "1">>, <<"R", "1">>, <<"A", "1">>),
      Comment(<<"u", "1">>, <<"4", "0", "T", "1">>, FALSE, Some(<<"e">>),
              <<"r", "1">>, <<"R", "1">>, <<"A", "1">>),
      Comment(<< >>, <<"3", "8", "T", "0">>, FALSE, None,
              <<"r", "2">>, <<"R", "2">>, <<"A", "2">>),
      Comment(<< >>, <<"2", "0">>, TRUE, Some(<<"e">>),
              <<"r", "2">>, <<"R", "2">>, <<"A", "1">>),
      Comment(<< >>, <<"0", "5">>, FALSE, None,
              <<"r", "1">>, <<"R", "2">>, <<"A", "1">>),
      Comment(<< >>, <<"4", "0", "T", "0", "+", "0">>, TRUE, None,
              <<"r", "1">>, <<"R", "1">>, <<"A", "2">>),
      Comment(<< >>, << >>, TRUE, None,
              <<"r", "1">>, <<"R", "1">>, <<"A", "1">>),
      Comment(<< >>, <<"4", "x">>, TRUE, None,
              <<"r", "1">>, <<"R", "1">>, <<"A", "1">>),
      Comment(<< >>, <<"4", "0", "T", "0">>, TRUE, None,
              <<"r", "1">>, << >>, <<"A", "1">>) }

DMBodies ==
    { Omit(DM(<< >>, <<"4", "0", "T", "0">>, "delivered", None,
              <<"r", "1">>, <<"R", "1">>, <<"A", "1">>, 0), "sent_at"),
      DM(<< >>, <<"4", "0", "T", "0">>, "delivered", None,
         <<"r", "1">>, <<"R", "1">>, <<"A", "1">>, 0 - 1),
      DM(<< >>, <<"4", "0", "T", "0">>, "delivered", None,
         <<"r", "1">>, <<"R", "1">>, <<"A", "1">>, 0),
      DM(<<"u", "1">>, <<"3", "8", "T", "1">>, "failed", Some(<<"e">>),
         <<"r", "2">>, <<"R", "2">>, <<"A", "2">>, 1),
      DM(<< >>, <<"0", "5">>, "pending", None,
         <<"r", "2">>, <<"R", "2">>, <<"A", "1">>, 0),
      DM(<< >>, <<"4", "0", "T", "1", "+", "0">>, "delivered", None,
         <<"r", "1">>, <<"R", "1">>, <<"A", "1">>, 0),
      DM(<< >>, << >>, "delivered", None,
         <<"r", "1">>, <<"R", "1">>, <<"A", "1">>, 0),
      DM(<< >>, <<"4", "0", "T", "0">>, "delivered", None,
         <<"r", "1">>, <<"R", "1">>, <<"A", "1">>, MaxRetryCount + 1),
      DM(<< >>, <<"4", "0", "T", "0">>, "bogus", None,
         <<"r", "1">>, <<"R", "1">>, <<"A", "1">>, 0) }

(***************************************************************************)
(* The two dicts.  A dict is the sequence of its items in insertion order. *)
(***************************************************************************)
Keys(db) == {db[i].key : i \in 1..Len(db)}

\* key in db
HasKey(db, k) == k \in Keys(db)

\* list(db.values())
Values(db) == [i \in 1..Len(db) |-> db[i].val]

\* db[k] = v
DictSet(db, k, v) ==
    IF HasKey(db, k)
    THEN [i \in 1..Len(db) |-> IF db[i].key = k THEN [key |-> k, val |-> v] ELSE db[i]]
    ELSE Append(db, [key |-> k, val |-> v])

\* faulty del: drops the oldest item whatever the key
DictDel_Oldest(db, k) == SubSeq(db, 2, Len(db))

\* del db[k], for a key that is present
DictDel(db, k) == SelectSeq(db, LAMBDA e : e.key # k)

\* db.clear()
DictClear(db) == << >>

(***************************************************************************)
(* Statistics.                                                             *)
(***************************************************************************)
WeekDays == 7
MonthDays == 30

\* len([x for x in logs if P(x)])
Count(logs, P(_)) == Cardinality({i \in 1..Len(logs) : P(logs[i])})

\* datetime.fromisoformat(text) >= bound raises (ValueError or TypeError)
CompareRaises(text, bound) ==
    \/ ~IsoValid(text)
    \/ ~Comparable(fromisoformat(text), bound)

\* datetime.fromisoformat(text) >= bound, when it does not raise
AtOrAfter(text, bound) == fromisoformat(text).at >= bound.at

\* faulty rate: 100 for an empty collection
SuccessRate_FullWhenEmpty(successful, total) ==
    IF total > 0 THEN (2 * 10000 * successful + total) \div (2 * total)
    ELSE 10000

\* round(successful / total * 100, 2) if total > 0 else 0, in hundredths
SuccessRate(successful, total) ==
    IF total > 0 THEN (2 * 10000 * successful + total) \div (2 * total) ELSE 0

\* max(counts.items(), key=lambda x: x[1])[0] over the counts of field f,
\* a dict filled in the order of logs: the first key with the highest count
MostActive(logs, f(_)) ==
    IF Len(logs) = 0 THEN None
    ELSE LET cnt(i) == Count(logs, LAMBDA x : f(x) = f(logs[i]))
             best == CHOOSE i \in 1..Len(logs) :
                        /\ \A j \in 1..Len(logs) : cnt(j) <= cnt(i)
                        /\ \A j \in 1..(i - 1) : cnt(j) < cnt(i)
         IN  Some(f(logs[best]))

ZeroStatistics ==
    [total_comments |-> 0, total_dms_sent |-> 0, active_rules |-> 0,
     today_comments |-> 0, today_dms_sent |-> 0,
     week_comments |-> 0, week_dms_sent |-> 0,
     success_rate_comments |-> 0, success_rate_dms |-> 0,
     most_active_rule |-> None, most_active_account |-> None]

\* the body of get_statistics on the two lists it read
Statistics(comment_logs, dm_logs, clock) ==
    LET today_start == StartOfDay(clock)
        week_start == MinusDays(clock, WeekDays)
        both == comment_logs \o dm_logs
    IN  IF \/ \E i \in 1..Len(comment_logs) :
                  \/ CompareRaises(comment_logs[i].timestamp, today_start)
                  \/ CompareRaises(comment_logs[i].timestamp, week_start)
           \/ \E i \in 1..Len(dm_logs) :
                  \/ CompareRaises(dm_logs[i].sent_at, today_start)
                  \/ CompareRaises(dm_logs[i].sent_at, week_start)
        THEN ZeroStatistics
        ELSE
        [total_comments |-> Len(comment_logs),
         total_dms_sent |-> Len(dm_logs),
         active_rules |-> Cardinality({both[i].rule_name : i \in 1..Len(both)}),
         today_comments |->
             Count(comment_logs, LAMBDA x : AtOrAfter(x.timestamp, today_start)),
         today_dms_sent |->
             Count(dm_logs, LAMBDA x : AtOrAfter(x.sent_at, today_start)),
         week_comments |->
             Count(comment_logs, LAMBDA x : AtOrAfter(x.timestamp, week_start)),
         week_dms_sent |->
             Count(dm_logs, LAMBDA x : AtOrAfter(x.sent_at, week_start)),
         success_rate_comments |->
             SuccessRate(Count(comment_logs, LAMBDA x : x.reply_sent),
                         Len(comment_logs)),
         success_rate_dms |->
             SuccessRate(Count(dm_logs, LAMBDA x : x.status = "delivered"),
                         Len(dm_logs)),
         most_active_rule |-> MostActive(both, LAMBDA x : x.rule_name),
         most_active_account |-> MostActive(both, LAMBDA x : x.target_account)]

(***************************************************************************)
(* Daily statistics.                                                       *)
(***************************************************************************)
DefaultDays == 7
MaxDays == 90

\* d + timedelta(days=n)
PlusDays(d, n) == [aware |-> d.aware, at |-> d.at + n * TicksPerDay]

\* d.strftime("%Y-%m-%d"): the day of a date of the model's range
strftime(d) ==
    <<Digits[((d.at \div TicksPerDay) \div 10) + 1],
      Digits[((d.at \div TicksPerDay) % 10) + 1]>>

\* date_start <= datetime.fromisoformat(text) < date_end, when it does not raise
Between(text, date_start, date_end) ==
    /\ date_start.at <= fromisoformat(text).at
    /\ fromisoformat(text).at < date_end.at

\* list.reverse()
Reverse(seq) == [p \in 1..Len(seq) |-> seq[Len(seq) + 1 - p]]

\* the entry get_daily_stats appends for i days back
DayBucket(comment_logs, dm_logs, clock, i) ==
    LET date_start == StartOfDay(MinusDays(clock, i))
        date_end == PlusDays(date_start, 1)
        day_comments ==
            Count(comment_logs, LAMBDA x : Between(x.timestamp, date_start, date_end))
        day_dms ==
            Count(dm_logs, LAMBDA x : Between(x.sent_at, date_start, date_end))
    IN  [date |-> strftime(date_start),
         comments |-> day_comments,
         dms |-> day_dms,
         total |-> day_comments + day_dms]

\* faulty series: the buckets stay in the order the loop built them
DailyStats_NewestFirst(comment_logs, dm_logs, clock, days) ==
    IF \/ \E i \in 1..Len(comment_logs) :
              CompareRaises(comment_logs[i].timestamp, StartOfDay(clock))
       \/ \E i \in 1..Len(dm_logs) :
              CompareRaises(dm_logs[i].sent_at, StartOfDay(clock))
    THEN [daily_stats |-> << >>, days |-> days, error |-> TRUE]
    ELSE [daily_stats |->
              [k \in 1..days |-> DayBucket(comment_logs, dm_logs, clock, k - 1)],
          days |-> days]

\* the body of get_daily_stats on the two lists it read: the comparison with
\* the naive date_start raises on the first record whose timestamp carries an
\* offset, and the except branch answers without buckets
DailyStats(comment_logs, dm_logs, clock, days) ==
    IF \/ \E i \in 1..Len(comment_logs) :
              CompareRaises(comment_logs[i].timestamp, StartOfDay(clock))
       \/ \E i \in 1..Len(dm_logs) :
              CompareRaises(dm_logs[i].sent_at, StartOfDay(clock))
    THEN [daily_stats |-> << >>, days |-> days, error |-> TRUE]
    ELSE [daily_stats |->
              Reverse([k \in 1..days |->
                          DayBucket(comment_logs, dm_logs, clock, k - 1)]),
          days |-> days]

(***************************************************************************)
(* Statistics by rule.                                                     *)
(***************************************************************************)
\* successful / total * 100 if total > 0 else 0, as a fraction in lowest terms
Percent(successful, total) ==
    IF total > 0
    THEN LET g == CHOOSE g \in 1..total :
                      /\ (100 * successful) % g = 0
                      /\ total % g = 0
                      /\ \A h \in (g + 1)..total :
                            (100 * successful) % h # 0 \/ total % h # 0
         IN  [num |-> (100 * successful) \div g, den |-> total \div g]
    ELSE [num |-> 0, den |-> 1]

\* the entry of rule_stats for the rule name of record first
RuleSummary(comment_logs, dm_logs, first) ==
    LET total_comments ==
            Count(comment_logs, LAMBDA x : x.rule_name = first.rule_name)
        successful_comments ==
            Count(comment_logs, LAMBDA x :
                      x.rule_name = first.rule_name /\ x.reply_sent)
        total_dms == Count(dm_logs, LAMBDA x : x.rule_name = first.rule_name)
        successful_dms ==
            Count(dm_logs, LAMBDA x :
                      x.rule_name = first.rule_name /\ x.status = "delivered")
    IN  [rule_name |-> first.rule_name,
         rule_id |-> first.rule_id,
         total_comments |-> total_comments,
         successful_comments |-> successful_comments,
         total_dms |-> total_dms,
         successful_dms |-> successful_dms,
         comment_success_rate |-> Percent(successful_comments, total_comments),
         dm_success_rate |-> Percent(successful_dms, total_dms)]

\* faulty grouping: one entry per rule id
RuleStats_ByRuleId(comment_logs, dm_logs) ==
    LET both == comment_logs \o dm_logs
        firsts == {i \in 1..Len(both) :
                      \A j \in 1..(i - 1) : both[j].rule_id # both[i].rule_id}
        nth(p) == CHOOSE i \in firsts :
                      Cardinality({j \in firsts : j < i}) = p - 1
    IN  [rule_stats |->
             [p \in 1..Cardinality(firsts) |->
                 RuleSummary(comment_logs, dm_logs, both[nth(p)])],
         total_rules |-> Cardinality(firsts)]

\* the body of get_stats_by_rule on the two lists it read: rule_stats is a
\* dict keyed by rule name, filled from the comments and then from the DMs,
\* so its values are in the order in which the names first appear
RuleStats(comment_logs, dm_logs) ==
    LET both == comment_logs \o dm_logs
        firsts == {i \in 1..Len(both) :
                      \A j \in 1..(i - 1) : both[j].rule_name # both[i].rule_name}
        nth(p) == CHOOSE i \in firsts :
                      Cardinality({j \in firsts : j < i}) = p - 1
    IN  [rule_stats |->
             [p \in 1..Cardinality(firsts) |->
                 RuleSummary(comment_logs, dm_logs, both[nth(p)])],
         total_rules |-> Cardinality(firsts)]

(***************************************************************************)
(* The query pipeline: filters, sort, page.                                *)
(***************************************************************************)
MaxSearchLen == 100
MaxParamLen == 100
MaxPageLimit == 100

ALLOWED_SORT_FIELDS_COMMENTS ==
    {"timestamp", "commenter_username", "rule_name", "target_account", "reply_sent"}

ALLOWED_SORT_FIELDS_DMS ==
    {"sent_at", "recipient_username", "rule_name", "target_account", "status"}

DateFilterValues == {"all", "today", "week", "month"}

StatusFilterValues == {"all", "success", "pending", "failed"}

\* the member name of a DMStatus value; its value is the name in lower case
DMStatusName(st) ==
    CASE st = "delivered" -> <<"D", "E", "L", "I", "V", "E", "R", "E", "D">>
      [] st = "pending" -> <<"P", "E", "N", "D", "I", "N", "G">>
      [] OTHER -> <<"F", "A", "I", "L", "E", "D">>

\* str(value) of an Optional[str], a bool, a small int and a DMStatus member
StrOfOpt(o) == IF o = None THEN <<"N", "o", "n", "e">> ELSE o[1]

StrOfBool(b) == IF b THEN <<"T", "r", "u", "e">> ELSE <<"F", "a", "l", "s", "e">>

StrOfInt(n) ==
    IF n < 10 THEN <<Digits[n + 1]>>
    ELSE <<Digits[(n \div 10) + 1], Digits[(n % 10) + 1]>>

StrOfStatus(st) ==
    <<"D", "M", "S", "t", "a", "t", "u", "s", ".">> \o DMStatusName(st)

\* {str(value) for value in log.dict().values()}
Texts(log) ==
    IF "timestamp" \in DOMAIN log
    THEN {log.id, log.timestamp, log.post_url, log.commenter_username,
          log.commenter_user_id, log.comment_text, StrOfBool(log.reply_sent),
          StrOfOpt(log.reply_text), log.rule_id, log.rule_name,
          log.target_account, StrOfOpt(log.error_message)}
    ELSE {log.id, log.sent_at, log.recipient_username, log.recipient_user_id,
          log.message, StrOfStatus(log.status), log.rule_id, log.rule_name,
          log.target_account, StrOfOpt(log.error_message),
          StrOfInt(log.retry_count)}

\* the lower bound filter_by_date computes
StartDate(date_filter, clock) ==
    CASE date_filter = "today" -> StartOfDay(clock)
      [] date_filter = "week" -> MinusDays(clock, WeekDays)
      [] OTHER -> MinusDays(clock, MonthDays)

\* filter_by_date: a ValueError skips the record, any other exception
\* (the TypeError of the comparison) returns the input
filter_by_date(logs, date_filter, timestamp_field, clock) ==
    IF date_filter = "all" THEN logs
    ELSE LET start_date == StartDate(date_filter, clock)
         IN  IF \E i \in 1..Len(logs) :
                    /\ IsoValid(logs[i][timestamp_field])
                    /\ ~Comparable(fromisoformat(logs[i][timestamp_field]),
                                   start_date)
             THEN logs
             ELSE SelectSeq(logs, LAMBDA x :
                      /\ IsoValid(x[timestamp_field])
                      /\ AtOrAfter(x[timestamp_field], start_date))

\* faulty status filter: pending is every comment without a reply
filter_by_status_PendingNoReply(logs, status_filter, log_type) ==
    IF status_filter = "all" THEN logs
    ELSE IF log_type = "comment"
    THEN CASE status_filter = "success" ->
                  SelectSeq(logs, LAMBDA x : x.reply_sent)
           [] status_filter = "pending" ->
                  SelectSeq(logs, LAMBDA x : ~x.reply_sent)
           [] status_filter = "failed" ->
                  SelectSeq(logs, LAMBDA x : Truthy(x.error_message))
           [] OTHER -> logs
    ELSE SelectSeq(logs, LAMBDA x : x.status = status_filter)

filter_by_status(logs, status_filter, log_type) ==
    IF status_filter = "all" THEN logs
    ELSE IF log_type = "comment"
    THEN CASE status_filter = "success" ->
                  SelectSeq(logs, LAMBDA x : x.reply_sent)
           [] status_filter = "pending" ->
                  SelectSeq(logs, LAMBDA x :
                      ~x.reply_sent /\ ~Truthy(x.error_message))
           [] status_filter = "failed" ->
                  SelectSeq(logs, LAMBDA x : Truthy(x.error_message))
           [] OTHER -> logs
    ELSE SelectSeq(logs, LAMBDA x : x.status = status_filter)

search_logs(logs, search_query) ==
    IF ~Truthy(search_query) THEN logs
    ELSE IF Len(search_query[1]) > MaxSearchLen THEN logs
    ELSE SelectSeq(logs, LAMBDA x :
             \E v \in Texts(x) : Contains(Lower(v), Lower(search_query[1])))

\* if account: logs = [log for log in logs if log.target_account == account]
filter_by_account(logs, account) ==
    IF ~Truthy(account) THEN logs
    ELSE SelectSeq(logs, LAMBDA x : x.target_account = account[1])

\* faulty rule filter: the matching records but the first
filter_by_rule_SkipFirst(logs, rule_id) ==
    IF ~Truthy(rule_id) THEN logs
    ELSE LET kept == SelectSeq(logs, LAMBDA x : x.rule_id = rule_id[1])
         IN  IF kept = << >> THEN kept ELSE Tail(kept)

\* if rule_id: logs = [log for log in logs if log.rule_id == rule_id]
filter_by_rule(logs, rule_id) ==
    IF ~Truthy(rule_id) THEN logs
    ELSE SelectSeq(logs, LAMBDA x : x.rule_id = rule_id[1])

\* a < b for two values of the sort field
KeyLess(a, b, sort_by) ==
    IF sort_by = "reply_sent" THEN ~a /\ b
    ELSE IF sort_by = "status"
    THEN StrLess(Lower(DMStatusName(a)), Lower(DMStatusName(b)))
    ELSE StrLess(a, b)

\* faulty sort: the ascending sort, reversed when reverse is set
Sort_ThenReverse(logs, sort_by, reverse) ==
    LET n == Len(logs)
        less(i, j) == KeyLess(logs[i][sort_by], logs[j][sort_by], sort_by)
        before(i, j) ==
            \/ less(i, j)
            \/ ~less(i, j) /\ ~less(j, i) /\ i < j
        pos(i) == 1 + Cardinality({j \in 1..n : j # i /\ before(j, i)})
        asc == [p \in 1..n |-> logs[CHOOSE i \in 1..n : pos(i) = p]]
    IN  IF reverse THEN [p \in 1..n |-> asc[n + 1 - p]] ELSE asc

\* logs.sort(key=lambda x: getattr(x, sort_by), reverse=reverse): a stable
\* sort, and stable with reverse=True as well
Sort(logs, sort_by, reverse) ==
    LET n == Len(logs)
        less(i, j) == KeyLess(logs[i][sort_by], logs[j][sort_by], sort_by)
        before(i, j) ==
            \/ IF reverse THEN less(j, i) ELSE less(i, j)
            \/ ~less(i, j) /\ ~less(j, i) /\ i < j
        pos(i) == 1 + Cardinality({j \in 1..n : j # i /\ before(j, i)})
    IN  [p \in 1..n |-> logs[CHOOSE i \in 1..n : pos(i) = p]]

\* faulty slice: logs[skip : skip + limit + 1]
Slice_OneMore(logs, skip, limit) ==
    IF skip >= Len(logs) THEN << >>
    ELSE SubSeq(logs, skip + 1,
                IF skip + limit + 1 < Len(logs) THEN skip + limit + 1
                ELSE Len(logs))

\* logs[skip:skip + limit]
Slice(logs, skip, limit) ==
    IF skip >= Len(logs) THEN << >>
    ELSE SubSeq(logs, skip + 1,
                IF skip + limit < Len(logs) THEN skip + limit ELSE Len(logs))

\* the filters of get_comment_logs / get_dm_logs, in the handler's order
Filtered(logs, log_type, q, clock) ==
    filter_by_rule(
        filter_by_account(
            search_logs(
                filter_by_status(
                    filter_by_date(logs, q.date_filter,
                                   IF log_type = "comment" THEN "timestamp"
                                   ELSE "sent_at",
                                   clock),
                    q.status_filter, log_type),
                q.search),
            q.account),
        q.rule_id)

\* faulty page: has_more is still true on the page that ends at the total
QueryResult_MoreAtEnd(values, log_type, q, sort_by, clock) ==
    LET logs == Sort(Filtered(values, log_type, q, clock), sort_by,
                     q.sort_order = "desc")
        total == Len(logs)
    IN  [items |-> Slice(logs, q.skip, q.limit),
         total |-> total,
         skip |-> q.skip,
         limit |-> q.limit,
         has_more |-> q.skip + q.limit <= total]

\* the answer of get_comment_logs / get_dm_logs, sort_by already validated
QueryResult(values, log_type, q, sort_by, clock) ==
    LET logs == Sort(Filtered(values, log_type, q, clock), sort_by,
                     q.sort_order = "desc")
        total == Len(logs)
    IN  [items |-> Slice(logs, q.skip, q.limit),
         total |-> total,
         skip |-> q.skip,
         limit |-> q.limit,
         has_more |-> q.skip + q.limit < total]

\* the Query(...) constraints FastAPI checks before the handler runs
OptParamValid(o) == o = None \/ Len(o[1]) <= MaxParamLen

QueryValid(q) ==
    /\ q.skip >= 0
    /\ q.limit >= 1 /\ q.limit <= MaxPageLimit
    /\ q.date_filter \in DateFilterValues
    /\ q.status_filter \in StatusFilterValues
    /\ OptParamValid(q.search)
    /\ OptParamValid(q.account)
    /\ OptParamValid(q.rule_id)
    /\ q.sort_order \in {"asc", "desc"}

(***************************************************************************)
(* The handlers, one request at a time.                                    *)
(***************************************************************************)
Idle == [t \in {} |-> 0]

\* faulty ingest: keeps the id the caller sent
CommentToStore_CallerId(log, id) ==
    [log EXCEPT !.timestamp = IF log.timestamp = << >>
                              THEN isoformat(utcnow) ELSE log.timestamp,
                !.id = IF log.id = << >> THEN id ELSE log.id]

\* the record create_comment_log stores: timestamp default, then the new id
CommentToStore(log, id) ==
    [log EXCEPT !.timestamp = IF log.timestamp = << >>
                              THEN isoformat(utcnow) ELSE log.timestamp,
                !.id = id]

\* the record create_dm_log stores
DMToStore(log, id) ==
    [log EXCEPT !.sent_at = IF log.sent_at = << >>
                            THEN isoformat(utcnow) ELSE log.sent_at,
                !.id = id]

\* faulty id source: may return a text it returned before
uuid4_Reused(id) == id \in Ids

\* log_id = str(uuid.uuid4()): a text no earlier call returned
uuid4(id) == id \in Ids \ issued

create_comment_log(log) ==
    /\ IF CommentLogValid(log)
       THEN \E log_id \in Ids :
              /\ uuid4(log_id)
              /\ issued' = issued \cup {log_id}
              /\ comment_logs_db' =
                    DictSet(comment_logs_db, log_id, CommentToStore(log, log_id))
              /\ last' = [op |-> "create_comment", status |-> 200, body |-> log,
                          id |-> log_id,
                          timestamp |-> CommentToStore(log, log_id).timestamp]
       ELSE /\ last' = [op |-> "create_comment", status |-> 422, body |-> log]
            /\ UNCHANGED <<comment_logs_db, issued>>
    /\ UNCHANGED <<dm_logs_db, now, set_order, pc, loc>>

create_dm_log(log) ==
    /\ IF DMLogValid(log)
       THEN \E log_id \in Ids :
              /\ uuid4(log_id)
              /\ issued' = issued \cup {log_id}
              /\ dm_logs_db' = DictSet(dm_logs_db, log_id, DMToStore(log, log_id))
              /\ last' = [op |-> "create_dm", status |-> 200, body |-> log,
                          id |-> log_id,
                          sent_at |-> DMToStore(log, log_id).sent_at]
       ELSE /\ last' = [op |-> "create_dm", status |-> 422, body |-> log]
            /\ UNCHANGED <<dm_logs_db, issued>>
    /\ UNCHANGED <<comment_logs_db, now, set_order, pc, loc>>

delete_comment_log(log_id) ==
    /\ IF ~HasKey(comment_logs_db, log_id)
       THEN /\ last' = [op |-> "delete_comment", status |-> 404, id |-> log_id]
            /\ UNCHANGED comment_logs_db
       ELSE /\ comment_logs_db' = DictDel(comment_logs_db, log_id)
            /\ last' = [op |-> "delete_comment", status |-> 200, id |-> log_id]
    /\ UNCHANGED <<dm_logs_db, issued, now, set_order, pc, loc>>

delete_dm_log(log_id) ==
    /\ IF ~HasKey(dm_logs_db, log_id)
       THEN /\ last' = [op |-> "delete_dm", status |-> 404, id |-> log_id]
            /\ UNCHANGED dm_logs_db
       ELSE /\ dm_logs_db' = DictDel(dm_logs_db, log_id)
            /\ last' = [op |-> "delete_dm", status |-> 200, id |-> log_id]
    /\ UNCHANGED <<comment_logs_db, issued, now, set_order, pc, loc>>

\* faulty clear: empties both collections whatever the scope
clear_all_logs_Both(log_type) ==
    /\ comment_logs_db' = DictClear(comment_logs_db)
    /\ dm_logs_db' = DictClear(dm_logs_db)
    /\ last' = [op |-> "clear", status |-> 200, log_type |-> log_type]
    /\ UNCHANGED <<issued, now, set_order, pc, loc>>

clear_all_logs(log_type) ==
    /\ comment_logs_db' = IF log_type \in {"comments", "all"}
                          THEN DictClear(comment_logs_db) ELSE comment_logs_db
    /\ dm_logs_db' = IF log_type \in {"dms", "all"}
                     THEN DictClear(dm_logs_db) ELSE dm_logs_db
    /\ last' = [op |-> "clear", status |-> 200, log_type |-> log_type]
    /\ UNCHANGED <<issued, now, set_order, pc, loc>>

get_statistics ==
    /\ last' = [op |-> "stats", status |-> 200,
                result |-> Statistics(Values(comment_logs_db),
                                      Values(dm_logs_db), utcnow)]
    /\ UNCHANGED <<comment_logs_db, dm_logs_db, issued, now, set_order, pc, loc>>

get_daily_stats(days) ==
    /\ IF days >= 1 /\ days <= MaxDays
       THEN last' = [op |-> "daily", status |-> 200, days |-> days,
                     result |-> DailyStats(Values(comment_logs_db),
                                           Values(dm_logs_db), utcnow, days)]
       ELSE last' = [op |-> "daily", status |-> 422, days |-> days]
    /\ UNCHANGED <<comment_logs_db, dm_logs_db, issued, now, set_order, pc, loc>>

get_stats_by_rule ==
    /\ last' = [op |-> "by_rule", status |-> 200,
                result |-> RuleStats(Values(comment_logs_db),
                                     Values(dm_logs_db))]
    /\ UNCHANGED <<comment_logs_db, dm_logs_db, issued, now, set_order, pc, loc>>

\* list(allowed_fields)[0]: the iteration order of a set of strings depends on
\* the hash seed of the process, so the first field is any of the set, the same
\* one for the life of the process; set_order holds it once it has been used
Unset == [comment |-> "unset", dm |-> "unset"]

validate_sort_by(sort_by, allowed_fields, first) ==
    IF sort_by \notin allowed_fields THEN first ELSE sort_by

\* the values list(allowed_fields)[0] can take in a call, known being the
\* value an earlier call saw
FirstOfSet(allowed_fields, known, sort_by) ==
    IF sort_by \in allowed_fields \/ known # "unset" THEN {known}
    ELSE allowed_fields

get_comment_logs(q) ==
    /\ IF QueryValid(q)
       THEN \E first \in FirstOfSet(ALLOWED_SORT_FIELDS_COMMENTS,
                                   set_order.comment, q.sort_by) :
              /\ set_order' = [set_order EXCEPT !.comment = first]
              /\ last' = [op |-> "query_comments", status |-> 200, q |-> q,
                          result |-> QueryResult(
                              Values(comment_logs_db), "comment", q,
                              validate_sort_by(q.sort_by,
                                  ALLOWED_SORT_FIELDS_COMMENTS, first),
                              utcnow)]
       ELSE /\ last' = [op |-> "query_comments", status |-> 422, q |-> q]
            /\ UNCHANGED set_order
    /\ UNCHANGED <<comment_logs_db, dm_logs_db, issued, now, pc, loc>>

get_dm_logs(q) ==
    /\ IF QueryValid(q)
       THEN \E first \in FirstOfSet(ALLOWED_SORT_FIELDS_DMS,
                                   set_order.dm, q.sort_by) :
              /\ set_order' = [set_order EXCEPT !.dm = first]
              /\ last' = [op |-> "query_dms", status |-> 200, q |-> q,
                          result |-> QueryResult(
                              Values(dm_logs_db), "dm", q,
                              validate_sort_by(q.sort_by,
                                  ALLOWED_SORT_FIELDS_DMS, first),
                              utcnow)]
       ELSE /\ last' = [op |-> "query_dms", status |-> 422, q |-> q]
            /\ UNCHANGED set_order
    /\ UNCHANGED <<comment_logs_db, dm_logs_db, issued, now, pc, loc>>

(***************************************************************************)
(* Query parameters the dashboard sends.                                   *)
(***************************************************************************)
Query(skip, limit, date_filter, status_filter, search, account, rule_id, sort_by, sort_order) ==
    [skip |-> skip, limit |-> limit, date_filter |-> date_filter,
     status_filter |-> status_filter, search |-> search, account |-> account,
     rule_id |-> rule_id, sort_by |-> sort_by, sort_order |-> sort_order]

\* no filter, the default sort, one page that holds a whole collection
Unfiltered(sort_by) ==
    Query(0, MaxPageLimit, "all", "all", None, None, None, sort_by, "desc")

\* GET /comments and GET /dms with no filter
UnfilteredComments == Unfiltered("timestamp")
UnfilteredDMs == Unfiltered("sent_at")

\* every combination of filters, on one page that holds the whole result
FilterQueries(sort_by) ==
    { Query(0, MaxPageLimit, df, sf, search, account, rule_id, sort_by, "desc") :
        df \in DateFilterValues, sf \in StatusFilterValues,
        search \in {None, Some(<<"R", "1">>)},
        account \in {None, Some(<<"A", "1">>)},
        rule_id \in {None, Some(<<"r", "2">>)} }

\* every page window: an offset up to past the end of the largest collection,
\* a page of one record and a page of all, with and without filters
PageQueries(sort_by) ==
    { Query(skip, limit, df, sf, None, account, None, sort_by, "desc") :
        skip \in 0..(MaxStore + 1), limit \in {1, MaxStore},
        df \in {"all", "today"}, sf \in {"all", "pending"},
        account \in {None, Some(<<"A", "1">>)} }

\* every allow-listed sort field in both orders
SortQueries(allowed_fields) ==
    { Query(0, MaxPageLimit, "all", "all", None, None, None, sort_by, order) :
        sort_by \in allowed_fields, order \in {"asc", "desc"} }

\* a sort_by that is in neither allow-list, in both orders
UnknownSortQueries ==
    { Query(0, MaxPageLimit, "all", "all", None, None, None,
            "nonexistent_field", order) : order \in {"asc", "desc"} }

\* the text of n characters c
Repeat(c, n) == [i \in 1..n |-> c]

\* search texts: the longest the search accepts and one character more, and
\* the texts str() gives a bool, a None and a DMStatus member
SearchTexts ==
    { Repeat("a", MaxSearchLen), Repeat("a", MaxSearchLen + 1),
      <<"t", "r", "u", "e">>, <<"n", "o", "n", "e">>,
      <<"d", "m", "s", "t", "a", "t", "u", "s">> }

\* a search and no other filter
SearchQueries(sort_by) ==
    { Query(0, MaxPageLimit, "all", "all", Some(text), None, None, sort_by, "desc") :
        text \in SearchTexts }

CommentQueries ==
    FilterQueries("timestamp") \cup PageQueries("timestamp")
        \cup SortQueries(ALLOWED_SORT_FIELDS_COMMENTS)
        \cup UnknownSortQueries \cup SearchQueries("timestamp")

DMQueries ==
    FilterQueries("sent_at") \cup PageQueries("sent_at")
        \cup SortQueries(ALLOWED_SORT_FIELDS_DMS)
        \cup UnknownSortQueries \cup SearchQueries("sent_at")

\* the days parameters the dashboard sends, and one below and one above the
\* range the route accepts
DaysValues == {0, 1, 2, DefaultDays, MaxDays + 1}

\* the clock advances between requests
FirstTick == 40 * TicksPerDay + (TicksPerDay - 1)

Tick ==
    /\ now < FirstTick + MaxTicks
    /\ now' = now + 1
    /\ UNCHANGED <<comment_logs_db, dm_logs_db, issued, set_order, last, pc, loc>>

Init ==
    /\ comment_logs_db = << >>
    /\ dm_logs_db = << >>
    /\ issued = {}
    /\ now = FirstTick
    /\ set_order = Unset
    /\ last = [op |-> "start", status |-> 0]
    /\ pc = Idle
    /\ loc = Idle

Next ==
    \/ \E log \in CommentBodies : create_comment_log(log)
    \/ \E log \in DMBodies : create_dm_log(log)
    \/ \E log_id \in Ids : delete_comment_log(log_id)
    \/ \E log_id \in Ids : delete_dm_log(log_id)
    \/ \E log_type \in {"comments", "dms", "all"} : clear_all_logs(log_type)
    \/ get_statistics
    \/ get_daily_stats(DefaultDays)
    \/ get_stats_by_rule
    \/ get_comment_logs(UnfilteredComments)
    \/ get_dm_logs(UnfilteredDMs)
    \/ Tick

Spec == Init /\ [][Next]_vars

(***************************************************************************)
(* Queries on a store that accepted ingests have filled.                   *)
(***************************************************************************)
IdText(i) == <<"u", Digits[i + 1]>>

\* the dict after the bodies of f were ingested in order into an empty store
StoreOf(f, ToStore(_, _)) ==
    [i \in 1..Len(f) |-> [key |-> IdText(i), val |-> ToStore(f[i], IdText(i))]]

CommentStores ==
    { StoreOf(f, CommentToStore) :
        f \in UNION { [1..n -> {b \in CommentBodies : CommentLogValid(b)}] :
                      n \in 0..MaxStore } }

DMStores ==
    { StoreOf(f, DMToStore) :
        f \in UNION { [1..n -> {b \in DMBodies : DMLogValid(b)}] :
                      n \in 0..MaxStore } }

InitQuery ==
    /\ \/ comment_logs_db \in CommentStores /\ dm_logs_db = << >>
       \/ comment_logs_db = << >> /\ dm_logs_db \in DMStores
    /\ issued = Keys(comment_logs_db) \cup Keys(dm_logs_db)
    /\ now = FirstTick
    /\ set_order = Unset
    /\ last = [op |-> "start", status |-> 0]
    /\ pc = Idle
    /\ loc = Idle

\* one request on the collection that was drawn
query_comments ==
    /\ last.op = "start"
    /\ dm_logs_db = << >>
    /\ \E q \in CommentQueries : get_comment_logs(q)

query_dms ==
    /\ last.op = "start"
    /\ comment_logs_db = << >>
    /\ \E q \in DMQueries : get_dm_logs(q)

NextQuery == query_comments \/ query_dms

SpecQuery == InitQuery /\ [][NextQuery]_vars

(***************************************************************************)
(* A client pages through one collection: the first page at skip 0, then   *)
(* the same query at skip + limit until a page comes back empty, while the *)
(* clock advances between its requests.                                    *)
(***************************************************************************)
PageLimits == {1, 2}

\* the queries of a paging client: every offset it can reach
PagingQueries(sort_by) ==
    { Query(skip, limit, df, sf, None, None, None, sort_by, "desc") :
        skip \in 0..(MaxStore + 1), limit \in PageLimits,
        df \in {"all", "today", "week"}, sf \in {"all", "pending"} }

PagingCommentQueries == PagingQueries("timestamp")

PagingDMQueries == PagingQueries("sent_at")

\* the first tick of the day the clock starts in
PagingStart == FirstTick - (TicksPerDay - 1)

\* a comment stored a week before the clock starts, to the tick
WeekOldComment ==
    Comment(<< >>, <<"3", "3", "T", "0">>, FALSE, None,
            <<"r", "1">>, <<"R", "1">>, <<"A", "1">>)

PagingCommentStores ==
    { StoreOf(f, CommentToStore) :
        f \in UNION { [1..n -> {b \in CommentBodies : CommentLogValid(b)}
                                  \cup {WeekOldComment}] :
                      n \in 0..MaxStore } }

InitPaging ==
    /\ \/ comment_logs_db \in PagingCommentStores /\ dm_logs_db = << >>
       \/ comment_logs_db = << >> /\ dm_logs_db \in DMStores
    /\ issued = Keys(comment_logs_db) \cup Keys(dm_logs_db)
    /\ now = PagingStart
    /\ set_order = Unset
    /\ last = [op |-> "start", status |-> 0]
    /\ pc = Idle
    /\ loc = Idle

first_page_comments ==
    /\ last.op = "start"
    /\ dm_logs_db = << >>
    /\ \E q \in PagingCommentQueries : q.skip = 0 /\ get_comment_logs(q)

first_page_dms ==
    /\ last.op = "start"
    /\ comment_logs_db = << >>
    /\ \E q \in PagingDMQueries : q.skip = 0 /\ get_dm_logs(q)

next_page_comments ==
    /\ last.op = "query_comments"
    /\ last.result.items # << >>
    /\ \E q \in PagingCommentQueries :
          /\ q = [last.q EXCEPT !.skip = last.q.skip + last.q.limit]
          /\ get_comment_logs(q)

next_page_dms ==
    /\ last.op = "query_dms"
    /\ last.result.items # << >>
    /\ \E q \in PagingDMQueries :
          /\ q = [last.q EXCEPT !.skip = last.q.skip + last.q.limit]
          /\ get_dm_logs(q)

NextPaging ==
    \/ first_page_comments
    \/ first_page_dms
    \/ next_page_comments
    \/ next_page_dms
    \/ Tick

SpecPaging == InitPaging /\ [][NextPaging]_vars

(***************************************************************************)
(* Statistics on a store that accepted ingests have filled in both         *)
(* collections.                                                            *)
(***************************************************************************)
\* a comment that carries a timestamp later than the clock of the server
FutureComment ==
    Comment(<< >>, <<"4", "5">>, FALSE, None,
            <<"r", "2">>, <<"R", "2">>, <<"A", "2">>)

StatsCommentBodies == {b \in CommentBodies : CommentLogValid(b)} \cup {FutureComment}

StatsDMBodies == {b \in DMBodies : DMLogValid(b)}

\* the dict db with the keys that come after base earlier ingests
Rekey(db, base) ==
    [i \in 1..Len(db) |->
        [key |-> IdText(base + i),
         val |-> [db[i].val EXCEPT !.id = IdText(base + i)]]]

\* the two dicts after comments and then DMs were ingested, one more record
\* in all than one collection of the query stores holds
StatsStores ==
    UNION { IF a + b <= MaxStore + 1
            THEN { <<StoreOf(f, CommentToStore),
                     Rekey(StoreOf(g, DMToStore), a)>> :
                       f \in [1..a -> StatsCommentBodies],
                       g \in [1..b -> StatsDMBodies] }
            ELSE {} :
            a \in 0..(MaxStore + 1), b \in 0..(MaxStore + 1) }

InitStats ==
    /\ now = FirstTick
    /\ \E st \in StatsStores :
          /\ comment_logs_db = st[1]
          /\ dm_logs_db = st[2]
    /\ issued = Keys(comment_logs_db) \cup Keys(dm_logs_db)
    /\ set_order = Unset
    /\ last = [op |-> "start", status |-> 0]
    /\ pc = Idle
    /\ loc = Idle

\* one request on the store that was drawn
stats_once == last.op = "start" /\ get_statistics

daily_once ==
    /\ last.op = "start"
    /\ \E days \in DaysValues : get_daily_stats(days)

by_rule_once == last.op = "start" /\ get_stats_by_rule

NextStats == stats_once \/ daily_once \/ by_rule_once

SpecStats == InitStats /\ [][NextStats]_vars

(***************************************************************************)
(* The handlers as the worker threads run them: FastAPI runs each `def`    *)
(* handler on a thread of its pool, and the interpreter may switch threads *)
(* between any two accesses to the dicts.  pc[t] is the access thread t    *)
(* makes next, loc[t] its request, its locals and its response; loc[t].seen*)
(* collects the contents the two dicts had together since the request of t *)
(* began.                                                                  *)
(***************************************************************************)
Threads == {"w1", "w2"}

Contents(c, d) == <<Values(c), Values(d)>>

NoResponse == [op |-> "none", status |-> 0]

Frame(req) ==
    [req |-> req, comment_logs |-> << >>, dm_logs |-> << >>,
     seen |-> {Contents(comment_logs_db, dm_logs_db)}, resp |-> NoResponse]

\* the locals of every thread once the dicts hold c and d
Observe(l, c, d) ==
    [t \in Threads |->
        IF pc[t] = "idle" THEN l[t]
        ELSE [l[t] EXCEPT !.seen = @ \cup {Contents(c, d)}]]

\* create_comment_log: one access, comment_logs_db[log_id] = log
create_comment_step(t, log) ==
    /\ pc[t] = "idle"
    /\ IF CommentLogValid(log)
       THEN \E log_id \in Ids :
              /\ uuid4(log_id)
              /\ issued' = issued \cup {log_id}
              /\ comment_logs_db' =
                    DictSet(comment_logs_db, log_id, CommentToStore(log, log_id))
              /\ loc' = Observe(
                    [loc EXCEPT ![t] =
                        [Frame([op |-> "create_comment"]) EXCEPT
                            !.resp = [op |-> "create_comment", status |-> 200,
                                      id |-> log_id]]],
                    comment_logs_db', dm_logs_db)
       ELSE /\ loc' = [loc EXCEPT ![t] =
                        [Frame([op |-> "create_comment"]) EXCEPT
                            !.resp = [op |-> "create_comment", status |-> 422]]]
            /\ UNCHANGED <<comment_logs_db, issued>>
    /\ UNCHANGED <<dm_logs_db, now, set_order, last, pc>>

\* create_dm_log: one access, dm_logs_db[log_id] = log
create_dm_step(t, log) ==
    /\ pc[t] = "idle"
    /\ IF DMLogValid(log)
       THEN \E log_id \in Ids :
              /\ uuid4(log_id)
              /\ issued' = issued \cup {log_id}
              /\ dm_logs_db' = DictSet(dm_logs_db, log_id, DMToStore(log, log_id))
              /\ loc' = Observe(
                    [loc EXCEPT ![t] =
                        [Frame([op |-> "create_dm"]) EXCEPT
                            !.resp = [op |-> "create_dm", status |-> 200,
                                      id |-> log_id]]],
                    comment_logs_db, dm_logs_db')
       ELSE /\ loc' = [loc EXCEPT ![t] =
                        [Frame([op |-> "create_dm"]) EXCEPT
                            !.resp = [op |-> "create_dm", status |-> 422]]]
            /\ UNCHANGED <<dm_logs_db, issued>>
    /\ UNCHANGED <<comment_logs_db, now, set_order, last, pc>>

\* delete_*_log, first access: if log_id not in db
delete_check(t, kind, log_id) ==
    /\ pc[t] = "idle"
    /\ IF ~HasKey(IF kind = "delete_comment" THEN comment_logs_db ELSE dm_logs_db,
                  log_id)
       THEN /\ loc' = [loc EXCEPT ![t] =
                        [Frame([op |-> kind, id |-> log_id]) EXCEPT
                            !.resp = [op |-> kind, status |-> 404]]]
            /\ pc' = pc
       ELSE /\ loc' = [loc EXCEPT ![t] = Frame([op |-> kind, id |-> log_id])]
            /\ pc' = [pc EXCEPT ![t] = "del"]
    /\ UNCHANGED <<comment_logs_db, dm_logs_db, issued, now, set_order, last>>

\* delete_*_log, second access: del db[log_id]; a KeyError is answered 500
delete_del(t) ==
    /\ pc[t] = "del"
    /\ LET kind == loc[t].req.op
           log_id == loc[t].req.id
           db == IF kind = "delete_comment" THEN comment_logs_db ELSE dm_logs_db
           after == IF HasKey(db, log_id) THEN DictDel(db, log_id) ELSE db
       IN  /\ comment_logs_db' =
                 IF kind = "delete_comment" THEN after ELSE comment_logs_db
           /\ dm_logs_db' = IF kind = "delete_dm" THEN after ELSE dm_logs_db
           /\ loc' = Observe(
                 [loc EXCEPT ![t].resp =
                     [op |-> kind,
                      status |-> IF HasKey(db, log_id) THEN 200 ELSE 500]],
                 comment_logs_db', dm_logs_db')
    /\ pc' = [pc EXCEPT ![t] = "idle"]
    /\ UNCHANGED <<issued, now, set_order, last>>

\* clear_all_logs, first access: comment_logs_db.clear()
clear_comments(t, log_type) ==
    /\ pc[t] = "idle"
    /\ comment_logs_db' = IF log_type \in {"comments", "all"}
                          THEN DictClear(comment_logs_db) ELSE comment_logs_db
    /\ pc' = [pc EXCEPT ![t] = "clear_dms"]
    /\ loc' = Observe(
          [loc EXCEPT ![t] = Frame([op |-> "clear", log_type |-> log_type])],
          comment_logs_db', dm_logs_db)
    /\ UNCHANGED <<dm_logs_db, issued, now, set_order, last>>

\* clear_all_logs, second access: dm_logs_db.clear()
clear_dms(t) ==
    /\ pc[t] = "clear_dms"
    /\ dm_logs_db' = IF loc[t].req.log_type \in {"dms", "all"}
                     THEN DictClear(dm_logs_db) ELSE dm_logs_db
    /\ pc' = [pc EXCEPT ![t] = "idle"]
    /\ loc' = Observe(
          [loc EXCEPT ![t].resp = [op |-> "clear", status |-> 200]],
          comment_logs_db, dm_logs_db')
    /\ UNCHANGED <<comment_logs_db, issued, now, set_order, last>>

\* get_statistics, first access: comment_logs = list(comment_logs_db.values())
stats_read_comments(t) ==
    /\ pc[t] = "idle"
    /\ loc' = [loc EXCEPT ![t] =
                [Frame([op |-> "stats"]) EXCEPT
                    !.comment_logs = Values(comment_logs_db)]]
    /\ pc' = [pc EXCEPT ![t] = "read_dms"]
    /\ UNCHANGED <<comment_logs_db, dm_logs_db, issued, now, set_order, last>>

\* get_statistics, second access: dm_logs = list(dm_logs_db.values()),
\* and the computation on the two lists
stats_read_dms(t) ==
    /\ pc[t] = "read_dms"
    /\ loc' = [loc EXCEPT
                ![t].dm_logs = Values(dm_logs_db),
                ![t].resp = [op |-> "stats", status |-> 200,
                             result |-> Statistics(loc[t].comment_logs,
                                                   Values(dm_logs_db), utcnow)]]
    /\ pc' = [pc EXCEPT ![t] = "idle"]
    /\ UNCHANGED <<comment_logs_db, dm_logs_db, issued, now, set_order, last>>

ConcCommentBodies ==
    { Comment(<< >>, <<"4", "0", "T", "0">>, TRUE, None,
              <<"r", "1">>, <<"R", "1">>, <<"A", "1">>) }

ConcDMBodies ==
    { DM(<< >>, <<"4", "0", "T", "0">>, "delivered", None,
         <<"r", "1">>, <<"R", "1">>, <<"A", "1">>, 0) }

InitConc ==
    /\ comment_logs_db = << >>
    /\ dm_logs_db = << >>
    /\ issued = {}
    /\ now = FirstTick
    /\ set_order = Unset
    /\ last = [op |-> "start", status |-> 0]
    /\ pc = [t \in Threads |-> "idle"]
    /\ loc = [t \in Threads |-> Frame([op |-> "none"])]

NextConc ==
    \E t \in Threads :
        \/ \E log \in ConcCommentBodies : create_comment_step(t, log)
        \/ \E log \in ConcDMBodies : create_dm_step(t, log)
        \/ \E kind \in {"delete_comment", "delete_dm"}, log_id \in Ids :
               delete_check(t, kind, log_id)
        \/ delete_del(t)
        \/ \E log_type \in {"comments", "dms", "all"} : clear_comments(t, log_type)
        \/ clear_dms(t)
        \/ stats_read_comments(t)
        \/ stats_read_dms(t)

SpecConc == InitConc /\ [][NextConc]_vars

(***************************************************************************)
(* Properties.                                                             *)
(***************************************************************************)
\* C1: after any accepted ingests, deletes and clears, get_statistics reports
\* total_comments and total_dms_sent equal to the number of records in the
\* comment and the DM collection, also when the store holds a record whose
\* timestamp cannot be compared with the current time.
C1_TotalsMatchStore ==
    last.op = "stats" =>
        /\ last.result.total_comments = Len(comment_logs_db)
        /\ last.result.total_dms_sent = Len(dm_logs_db)

\* C2: the comment list and the DM list a get_statistics request aggregates
\* are the contents the two collections had together in one state reached
\* during the request.
C2_SnapshotOfOneState ==
    \A t \in Threads :
        loc[t].resp.op = "stats" =>
            <<loc[t].comment_logs, loc[t].dm_logs>> \in loc[t].seen

\* C3: a delete request answers deleted (200) or not found (404), never an
\* internal error (500), whatever other delete or clear request runs with it.
C3_DeleteNeverFails ==
    \A t \in Threads :
        loc[t].resp.op \in {"delete_comment", "delete_dm"} =>
            loc[t].resp.status \in {200, 404}

\* db without its item of key k, every other item kept in place
Without(db, after, k) ==
    \E i \in 1..Len(db) :
        /\ db[i].key = k
        /\ after = SubSeq(db, 1, i - 1) \o SubSeq(db, i + 1, Len(db))

\* C4: one request at a time, delete_comment_log(id) (delete_dm_log(id)) on a
\* key of its collection answers 200, removes exactly that item and leaves
\* every other item of both collections as it was; on a key that is not
\* there it answers 404 and leaves both collections as they were.
C4_DeleteRemovesExactlyOne ==
    [][\A log_id \in Ids :
         /\ delete_comment_log(log_id) =>
              /\ dm_logs_db' = dm_logs_db
              /\ IF log_id \in Keys(comment_logs_db)
                 THEN /\ last'.status = 200
                      /\ Without(comment_logs_db, comment_logs_db', log_id)
                 ELSE /\ last'.status = 404
                      /\ comment_logs_db' = comment_logs_db
         /\ delete_dm_log(log_id) =>
              /\ comment_logs_db' = comment_logs_db
              /\ IF log_id \in Keys(dm_logs_db)
                 THEN /\ last'.status = 200
                      /\ Without(dm_logs_db, dm_logs_db', log_id)
                 ELSE /\ last'.status = 404
                      /\ dm_logs_db' = dm_logs_db]_vars

\* a delete answered 200 while another record stays in the collection
C4_Witness ==
    \/ last.op = "delete_comment" /\ last.status = 200 /\ Len(comment_logs_db) >= 1
    \/ last.op = "delete_dm" /\ last.status = 200 /\ Len(dm_logs_db) >= 1

\* every item of db carries its key as id, and no key occurs twice
IdsAreKeys(db) ==
    /\ \A i \in 1..Len(db) : db[i].val.id = db[i].key
    /\ \A i, j \in 1..Len(db) : db[i].key = db[j].key => i = j

\* the records of a sequence
Range(seq) == {seq[i] : i \in 1..Len(seq)}

\* after holds the items of db and then one new item of key k and record id k
GrownBy(db, after, k) ==
    /\ Len(after) = Len(db) + 1
    /\ SubSeq(after, 1, Len(db)) = db
    /\ after[Len(after)].key = k
    /\ after[Len(after)].val.id = k

C6_ClearScope ==
    [][\A log_type \in {"comments", "dms", "all"} :
         clear_all_logs(log_type) =>
            /\ log_type \in {"comments", "all"} => comment_logs_db' = << >>
            /\ log_type \in {"dms", "all"} => dm_logs_db' = << >>
            /\ log_type = "comments" =>
                  /\ dm_logs_db' = dm_logs_db
                  /\ QueryResult(Values(dm_logs_db'), "dm", UnfilteredDMs,
                                 "sent_at", [aware |-> FALSE, at |-> now'])
                     = QueryResult(Values(dm_logs_db), "dm", UnfilteredDMs,
                                   "sent_at", utcnow)
            /\ log_type = "dms" =>
                  /\ comment_logs_db' = comment_logs_db
                  /\ QueryResult(Values(comment_logs_db'), "comment",
                                 UnfilteredComments, "timestamp",
                                 [aware |-> FALSE, at |-> now'])
                     = QueryResult(Values(comment_logs_db), "comment",
                                   UnfilteredComments, "timestamp", utcnow)]_vars

\* a clear of one collection while the other holds records
C6_Witness ==
    /\ last.op = "clear"
    /\ \/ last.log_type = "comments" /\ Len(dm_logs_db) >= 1
       \/ last.log_type = "dms" /\ Len(comment_logs_db) >= 1

\* the timestamp text parses, compares with the bound and is at or after it
InRange(text, date_filter, clock) ==
    /\ IsoValid(text)
    /\ Comparable(fromisoformat(text), StartDate(date_filter, clock))
    /\ AtOrAfter(text, StartDate(date_filter, clock))

\* a query answered 200 whose only filter is the date filter
DateOnly(r) ==
    /\ r.op \in {"query_comments", "query_dms"}
    /\ r.status = 200
    /\ r.q.date_filter # "all"
    /\ r.q.status_filter = "all"
    /\ r.q.search = None /\ r.q.account = None /\ r.q.rule_id = None

\* C7: with date filter today, week or month a query matches exactly the
\* records whose timestamp is at or after the lower bound: no record older
\* than the bound, and none whose timestamp cannot be processed, is returned.
C7_DateFilterExact ==
    DateOnly(last) =>
        IF last.op = "query_comments"
        THEN /\ last.result.total =
                    Count(Values(comment_logs_db), LAMBDA x :
                        InRange(x.timestamp, last.q.date_filter, utcnow))
             /\ \A x \in Range(last.result.items) :
                    InRange(x.timestamp, last.q.date_filter, utcnow)
        ELSE /\ last.result.total =
                    Count(Values(dm_logs_db), LAMBDA x :
                        InRange(x.sent_at, last.q.date_filter, utcnow))
             /\ \A x \in Range(last.result.items) :
                    InRange(x.sent_at, last.q.date_filter, utcnow)

\* the query with the date filter alone
DateQuery(date_filter, sort_by) ==
    Query(0, MaxPageLimit, date_filter, "all", None, None, None, sort_by, "desc")

\* C8: for the same store and the same clock, today_comments and
\* week_comments of get_statistics are the totals of get_comment_logs with
\* date filter today and week, and today_dms_sent and week_dms_sent those of
\* get_dm_logs.
C8_StatsAgreeWithQueries ==
    [][get_statistics =>
        /\ last'.result.today_comments =
              QueryResult(Values(comment_logs_db), "comment",
                  DateQuery("today", "timestamp"), "timestamp", utcnow).total
        /\ last'.result.week_comments =
              QueryResult(Values(comment_logs_db), "comment",
                  DateQuery("week", "timestamp"), "timestamp", utcnow).total
        /\ last'.result.today_dms_sent =
              QueryResult(Values(dm_logs_db), "dm",
                  DateQuery("today", "sent_at"), "sent_at", utcnow).total
        /\ last'.result.week_dms_sent =
              QueryResult(Values(dm_logs_db), "dm",
                  DateQuery("week", "sent_at"), "sent_at", utcnow).total]_vars

\* a query that was answered with a page
Answered ==
    last.op \in {"query_comments", "query_dms"} /\ last.status = 200

Queried == IF last.op = "query_comments" THEN comment_logs_db ELSE dm_logs_db

\* C9, as claimed: on a non-empty collection, skip plus the number of items
\* returned is at most the total.
C9_SkipPlusReturnedWithinTotal ==
    Answered /\ Len(Queried) >= 1 =>
        last.q.skip + Len(last.result.items) <= last.result.total

\* C9, amended: the page holds min(limit, max(0, total - skip)) items, so
\* skip plus the number of items returned is at most the total whenever skip
\* is at most the total.
C9_PageWithinTotal ==
    Answered =>
        LET total == last.result.total
            left == IF total > last.q.skip THEN total - last.q.skip ELSE 0
        IN  /\ Len(last.result.items) =
                  (IF last.q.limit < left THEN last.q.limit ELSE left)
            /\ last.q.skip <= total =>
                  last.q.skip + Len(last.result.items) <= total

\* a second page of one record, with records before and after it
C9_Witness ==
    /\ Answered
    /\ last.q.skip >= 1
    /\ Len(last.result.items) >= 1
    /\ last.result.total >= last.q.skip + 1

\* the record passes every filter the query supplies
Passes(x, log_type, q, clock) ==
    /\ q.date_filter # "all" =>
          InRange(IF log_type = "comment" THEN x.timestamp ELSE x.sent_at,
                  q.date_filter, clock)
    /\ q.status_filter # "all" =>
          IF log_type = "comment"
          THEN CASE q.status_filter = "success" -> x.reply_sent
                 [] q.status_filter = "pending" ->
                        ~x.reply_sent /\ ~Truthy(x.error_message)
                 [] OTHER -> Truthy(x.error_message)
          ELSE x.status = q.status_filter
    /\ Truthy(q.search) /\ Len(q.search[1]) <= MaxSearchLen =>
          \E v \in Texts(x) : Contains(Lower(v), Lower(q.search[1]))
    /\ Truthy(q.account) => x.target_account = q.account[1]
    /\ Truthy(q.rule_id) => x.rule_id = q.rule_id[1]

\* C10: the total is the number of records that pass every supplied filter,
\* counted before the page is cut, and has_more is skip + limit < total.
C10_TotalBeforePage ==
    Answered =>
        /\ last.result.total =
              Count(Values(Queried), LAMBDA x :
                  Passes(x, IF last.op = "query_comments" THEN "comment" ELSE "dm",
                         last.q, utcnow))
        /\ last.result.has_more =
              (last.q.skip + last.q.limit < last.result.total)

\* C11: a query whose sort_by is not in the allow-list of its collection is
\* answered, and its result is the one of the same query sorted by the first
\* allow-listed field: timestamp for comments, sent_at for DMs.
C11_UnknownSortUsesDefault ==
    /\ ( /\ last.op = "query_comments"
          /\ last.q.sort_by \notin ALLOWED_SORT_FIELDS_COMMENTS ) =>
            /\ last.status = 200
            /\ last.result = QueryResult(Values(comment_logs_db), "comment",
                                         last.q, "timestamp", utcnow)
    /\ ( /\ last.op = "query_dms"
          /\ last.q.sort_by \notin ALLOWED_SORT_FIELDS_DMS ) =>
            /\ last.status = 200
            /\ last.result = QueryResult(Values(dm_logs_db), "dm",
                                         last.q, "sent_at", utcnow)

\* the place of record x in the sequence logs of records with distinct ids
PlaceIn(logs, x) == CHOOSE k \in 1..Len(logs) : logs[k].id = x.id

\* the filtered snapshot of the query that was answered
FilteredSnapshot ==
    Filtered(Values(Queried),
             IF last.op = "query_comments" THEN "comment" ELSE "dm",
             last.q, utcnow)

\* the query that was answered sorts by a field of its allow-list
SortsByAllowed ==
    /\ Answered
    /\ last.q.sort_by \in (IF last.op = "query_comments"
                            THEN ALLOWED_SORT_FIELDS_COMMENTS
                            ELSE ALLOWED_SORT_FIELDS_DMS)

\* C12: for every allow-listed sort field and both orders the items of the
\* answer are records of the filtered snapshot, all of them when the page
\* holds the snapshot; they are non-decreasing in the field for asc and
\* non-increasing for desc; and two items with equal field values are in the
\* relative order they have in the filtered snapshot, for asc and for desc.
C12_SortMonotonicStable ==
    SortsByAllowed =>
        LET items == last.result.items
            f == last.q.sort_by
            snapshot == FilteredSnapshot
            less(a, b) == KeyLess(a[f], b[f], f)
        IN  /\ Range(items) \subseteq Range(snapshot)
            /\ last.result.total = Len(snapshot)
            /\ ( last.q.skip = 0 /\ last.q.limit >= Len(snapshot) ) =>
                    Len(items) = Len(snapshot) /\ Range(items) = Range(snapshot)
            /\ \A i, j \in 1..Len(items) :
                  i < j =>
                    /\ IF last.q.sort_order = "asc"
                       THEN ~less(items[j], items[i])
                       ELSE ~less(items[i], items[j])
                    /\ ( ~less(items[i], items[j]) /\ ~less(items[j], items[i]) ) =>
                          PlaceIn(snapshot, items[i]) < PlaceIn(snapshot, items[j])

\* a descending sort of records with equal field values
C12_Witness ==
    /\ SortsByAllowed
    /\ last.q.sort_order = "desc"
    /\ Len(last.result.items) >= 2
    /\ last.result.items[1][last.q.sort_by] = last.result.items[2][last.q.sort_by]
    /\ last.result.items[1] # last.result.items[2]

\* the records the query that was answered ran over, and their kind
QueriedValues == Values(Queried)

QueriedType == IF last.op = "query_comments" THEN "comment" ELSE "dm"

QueriedTimeField == IF last.op = "query_comments" THEN "timestamp" ELSE "sent_at"

\* C13: with the clock held fixed, each filter of a query (date, status,
\* search, account, rule) applied to its own output returns that output.
C13_FiltersIdempotent ==
    Answered =>
        LET logs == QueriedValues
            byDate(l, d) == filter_by_date(l, d, QueriedTimeField, utcnow)
            byStatus(l, st) == filter_by_status(l, st, QueriedType)
        IN  /\ \A d \in DateFilterValues :
                  byDate(byDate(logs, d), d) = byDate(logs, d)
            /\ \A st \in StatusFilterValues :
                  byStatus(byStatus(logs, st), st) = byStatus(logs, st)
            /\ search_logs(search_logs(logs, last.q.search), last.q.search)
                  = search_logs(logs, last.q.search)
            /\ filter_by_account(filter_by_account(logs, last.q.account),
                                   last.q.account)
                  = filter_by_account(logs, last.q.account)
            /\ filter_by_rule(filter_by_rule(logs, last.q.rule_id),
                                last.q.rule_id)
                  = filter_by_rule(logs, last.q.rule_id)

\* a query with a date, a status, an account and a rule filter that keeps one
\* record and drops one
C13_Witness ==
    /\ Answered
    /\ last.q.date_filter # "all"
    /\ last.q.status_filter # "all"
    /\ Truthy(last.q.account)
    /\ Truthy(last.q.rule_id)
    /\ Len(QueriedValues) = 2
    /\ last.result.total = 1

\* the five filters of a query, by name
FilterNames == {"date", "status", "search", "account", "rule"}

\* one filter of the query q, applied alone to logs
ApplyFilter(logs, name, log_type, q, clock) ==
    CASE name = "date" ->
             filter_by_date(logs, q.date_filter,
                            IF log_type = "comment" THEN "timestamp"
                            ELSE "sent_at", clock)
      [] name = "status" -> filter_by_status(logs, q.status_filter, log_type)
      [] name = "search" -> search_logs(logs, q.search)
      [] name = "account" -> filter_by_account(logs, q.account)
      [] OTHER -> filter_by_rule(logs, q.rule_id)

\* the orders in which the five filters can be applied
FilterOrders ==
    {o \in [1..5 -> FilterNames] : \A i, j \in 1..5 : o[i] = o[j] => i = j}

\* the five filters of q applied to logs in the order o
ApplyInOrder(logs, o, log_type, q, clock) ==
    ApplyFilter(
        ApplyFilter(
            ApplyFilter(
                ApplyFilter(
                    ApplyFilter(logs, o[1], log_type, q, clock),
                    o[2], log_type, q, clock),
                o[3], log_type, q, clock),
            o[4], log_type, q, clock),
        o[5], log_type, q, clock)

\* C14: the records a query matches are the records that each of its filters
\* alone keeps of the snapshot, and the five filters applied to the snapshot
\* in any order keep the same set of records.
C14_FiltersCommute ==
    Answered =>
        LET logs == QueriedValues
            matched == Range(Filtered(logs, QueriedType, last.q, utcnow))
        IN  /\ last.result.total = Cardinality(matched)
            /\ matched =
                  {x \in Range(logs) :
                      \A name \in FilterNames :
                          x \in Range(ApplyFilter(logs, name, QueriedType,
                                                  last.q, utcnow))}
            /\ \A o \in FilterOrders :
                  Range(ApplyInOrder(logs, o, QueriedType, last.q, utcnow))
                      = matched

\* the query q without its search parameter
WithoutSearch(q) == [q EXCEPT !.search = None]

\* C15: a query whose search text has more than 100 characters is answered
\* with the items and the total of the same query without a search; a search
\* text of exactly 100 characters is answered and applied as a filter.
C15_LongSearchIgnored ==
    ( /\ last.op \in {"query_comments", "query_dms"}
      /\ last.q.search # None ) =>
        /\ Len(last.q.search[1]) > MaxSearchLen =>
              /\ last.status = 200
              /\ last.result = QueryResult(QueriedValues, QueriedType,
                                           WithoutSearch(last.q),
                                           last.q.sort_by, utcnow)
        /\ Len(last.q.search[1]) = MaxSearchLen =>
              /\ last.status = 200
              /\ last.result.total =
                    Len(SelectSeq(QueriedValues, LAMBDA x :
                          \E v \in Texts(x) :
                              Contains(Lower(v), Lower(last.q.search[1]))))

\* the values of the string-valued fields of a record: an absent Optional
\* text is no value, a DMStatus has the string value of its member
StringValues(log) ==
    ( IF "timestamp" \in DOMAIN log
      THEN {log.id, log.timestamp, log.post_url, log.commenter_username,
            log.commenter_user_id, log.comment_text, log.rule_id,
            log.rule_name, log.target_account}
             \cup {log.reply_text[i] : i \in 1..Len(log.reply_text)}
      ELSE {log.id, log.sent_at, log.recipient_username,
            log.recipient_user_id, log.message, Lower(DMStatusName(log.status)),
            log.rule_id, log.rule_name, log.target_account} )
      \cup {log.error_message[i] : i \in 1..Len(log.error_message)}

\* C16: a query with a search text of 1 to 100 characters matches exactly the
\* records that pass its other filters and have a string-valued field whose
\* lower-cased value contains the lower-cased text; a boolean, a number or an
\* absent value matches no text.
C16_SearchStringFieldsOnly ==
    ( /\ Answered
      /\ Truthy(last.q.search)
      /\ Len(last.q.search[1]) <= MaxSearchLen ) =>
        LET others == Filtered(QueriedValues, QueriedType,
                               WithoutSearch(last.q), utcnow)
            kept == SelectSeq(others, LAMBDA x :
                        \E v \in StringValues(x) :
                            Contains(Lower(v), Lower(last.q.search[1])))
        IN  /\ last.result.total = Len(kept)
            /\ Range(last.result.items) \subseteq Range(kept)

\* the comment has an error message that is not empty
HasError(x) == x.error_message # None /\ x.error_message[1] # << >>

\* what the claim says a status filter keeps of the comments
CommentStatusIs(x, status_filter) ==
    CASE status_filter = "success" -> x.reply_sent
      [] status_filter = "pending" -> ~x.reply_sent /\ ~HasError(x)
      [] status_filter = "failed" -> HasError(x)
      [] OTHER -> TRUE

\* the query supplies no filter but the status filter
OnlyStatusFilter(q) ==
    /\ q.date_filter = "all"
    /\ q.search = None
    /\ q.account = None
    /\ q.rule_id = None

\* C17: on the comments, status filter success keeps exactly the records with
\* reply_sent true, pending exactly those with reply_sent false and no error
\* message, failed exactly those with an error message that is not empty, and
\* all returns its input; a query with the status filter alone matches these
\* records.
C17_CommentStatusFilter ==
    ( Answered /\ last.op = "query_comments" ) =>
        LET logs == QueriedValues
            kept(sf) == SelectSeq(logs, LAMBDA x : CommentStatusIs(x, sf))
        IN  /\ \A sf \in StatusFilterValues :
                  filter_by_status(logs, sf, "comment") = kept(sf)
            /\ filter_by_status(logs, "all", "comment") = logs
            /\ OnlyStatusFilter(last.q) =>
                  /\ last.result.total = Len(kept(last.q.status_filter))
                  /\ Range(last.result.items)
                        \subseteq Range(kept(last.q.status_filter))

\* a pending query that keeps a comment and drops a comment that has no reply
\* but an error message
C17_Witness ==
    /\ Answered
    /\ last.op = "query_comments"
    /\ OnlyStatusFilter(last.q)
    /\ last.q.status_filter = "pending"
    /\ last.result.total = 1
    /\ \E i \in 1..Len(QueriedValues) :
          ~QueriedValues[i].reply_sent /\ HasError(QueriedValues[i])

\* C18: every stored comment with reply_sent true has no error message, and
\* an ingest of a comment with reply_sent true and an error message is
\* rejected.
C18_ReplySentHasNoError ==
    /\ \A i \in 1..Len(comment_logs_db) :
          comment_logs_db[i].val.reply_sent =>
              ~HasError(comment_logs_db[i].val)
    /\ ( /\ last.op = "create_comment"
         /\ last.body.reply_sent
         /\ HasError(last.body) ) => last.status = 422

\* the body leaves the field out or sends it empty
Omitted(body, field) == IF field \in DOMAIN body THEN body[field] = << >> ELSE TRUE

\* C19: an ingest of a comment or of a DM whose timestamp is absent or empty
\* is accepted, and the record it stores carries the current UTC time.
C19_OmittedTimestampDefaults ==
    [][ /\ ( /\ last'.op = "create_comment"
             /\ Omitted(last'.body, "timestamp")
             /\ create_comment_log(last'.body) ) =>
               /\ last'.status = 200
               /\ Len(comment_logs_db') = Len(comment_logs_db) + 1
               /\ comment_logs_db'[Len(comment_logs_db')].val.timestamp
                     = isoformat(utcnow)
        /\ ( /\ last'.op = "create_dm"
             /\ Omitted(last'.body, "sent_at")
             /\ create_dm_log(last'.body) ) =>
               /\ last'.status = 200
               /\ Len(dm_logs_db') = Len(dm_logs_db) + 1
               /\ dm_logs_db'[Len(dm_logs_db')].val.sent_at
                     = isoformat(utcnow) ]_vars

\* the comment body misses a required field, has a timestamp that does not
\* parse, or has a text outside its length range
BadComment(b) ==
    IF ~(CommentLogRequired \subseteq DOMAIN b) THEN TRUE
    ELSE IF ~IsoValid(b.timestamp) THEN TRUE
    ELSE Len(b.rule_name) < 1

\* the DM body misses a required field, has a sent_at that does not parse, a
\* status that is no DMStatus or a retry_count outside 0..10
BadDM(b) ==
    IF ~(DMLogRequired \subseteq DOMAIN b) THEN TRUE
    ELSE IF ~IsoValid(b.sent_at) THEN TRUE
    ELSE IF b.status \notin DMStatusValues THEN TRUE
    ELSE b.retry_count \notin 0..MaxRetryCount

\* every stored record has a timestamp that parses, and every stored DM a
\* retry_count in 0..10
StoredRecordsValid ==
    /\ \A i \in 1..Len(comment_logs_db) :
          IsoValid(comment_logs_db[i].val.timestamp)
    /\ \A i \in 1..Len(dm_logs_db) :
          /\ IsoValid(dm_logs_db[i].val.sent_at)
          /\ dm_logs_db[i].val.retry_count \in 0..MaxRetryCount

\* C20: an ingest whose timestamp does not parse, that misses a required
\* field or that has a value out of range (a DM retry_count outside 0..10) is
\* rejected and leaves both collections as they were; so every stored record
\* has a timestamp that parses and every stored DM a retry_count in 0..10.
C20_BadIngestRejected ==
    /\ []StoredRecordsValid
    /\ [][ ( /\ last'.op = "create_comment"
             /\ BadComment(last'.body)
             /\ create_comment_log(last'.body) ) =>
               /\ last'.status = 422
               /\ comment_logs_db' = comment_logs_db
               /\ dm_logs_db' = dm_logs_db ]_vars
    /\ [][ ( /\ last'.op = "create_dm"
             /\ BadDM(last'.body)
             /\ create_dm_log(last'.body) ) =>
               /\ last'.status = 422
               /\ comment_logs_db' = comment_logs_db
               /\ dm_logs_db' = dm_logs_db ]_vars

\* a DM with retry_count 11 was rejected while both collections hold records
C20_Witness ==
    /\ last.op = "create_dm"
    /\ last.status = 422
    /\ "retry_count" \in DOMAIN last.body
    /\ last.body.retry_count > MaxRetryCount
    /\ Len(comment_logs_db) >= 1
    /\ Len(dm_logs_db) >= 1

\* get_statistics answered
StatsAnswered == last.op = "stats" /\ last.status = 200

\* C21, as claimed: the comment success rate get_statistics reports is 0 if
\* and only if the comment collection is empty, and the DM success rate is 0
\* if and only if the DM collection is empty.
C21_RateZeroIffEmpty ==
    StatsAnswered =>
        /\ last.result.success_rate_comments = 0 <=> Len(comment_logs_db) = 0
        /\ last.result.success_rate_dms = 0 <=> Len(dm_logs_db) = 0

\* C21, amended: each success rate is between 0 and 100 (in hundredths), is
\* 0 when its collection is empty or holds no successful record, and a rate
\* above 0 is the rounded share of the successful records of a collection
\* that is not empty.
C21_RateZeroWhenEmpty ==
    StatsAnswered =>
        LET comments == Values(comment_logs_db)
            dms == Values(dm_logs_db)
            sent == Count(comments, LAMBDA x : x.reply_sent)
            delivered == Count(dms, LAMBDA x : x.status = "delivered")
            rate_comments == last.result.success_rate_comments
            rate_dms == last.result.success_rate_dms
        IN  /\ rate_comments \in 0..10000
            /\ rate_dms \in 0..10000
            /\ Len(comments) = 0 \/ sent = 0 => rate_comments = 0
            /\ Len(dms) = 0 \/ delivered = 0 => rate_dms = 0
            /\ rate_comments > 0 =>
                  /\ Len(comments) > 0
                  /\ 2 * Len(comments) * rate_comments
                        \in (20000 * sent - Len(comments))
                              ..(20000 * sent + Len(comments))
            /\ rate_dms > 0 =>
                  /\ Len(dms) > 0
                  /\ 2 * Len(dms) * rate_dms
                        \in (20000 * delivered - Len(dms))
                              ..(20000 * delivered + Len(dms))

\* statistics of no comment and of DMs some of which were delivered
C21_Witness ==
    /\ StatsAnswered
    /\ Len(comment_logs_db) = 0
    /\ Len(dm_logs_db) >= 2
    /\ last.result.success_rate_comments = 0
    /\ last.result.success_rate_dms > 0
    /\ last.result.success_rate_dms < 10000

\* the comments followed by the DMs, each in insertion order
CombinedSnapshot == Values(comment_logs_db) \o Values(dm_logs_db)

\* the place of the first record of seq whose field is v
FirstPlace(seq, field, v) ==
    CHOOSE i \in 1..Len(seq) :
        /\ seq[i][field] = v
        /\ \A j \in 1..(i - 1) : seq[j][field] # v

\* answer is the claimed most active value of field: none on an empty
\* snapshot, else a value with the highest number of records, the one that
\* appears first among those
IsMostActive(answer, seq, field) ==
    IF Len(seq) = 0 THEN answer = None
    ELSE /\ answer # None
         /\ \E i \in 1..Len(seq) : seq[i][field] = answer[1]
         /\ \A i \in 1..Len(seq) :
               LET mine == Count(seq, LAMBDA x : x[field] = answer[1])
                   other == Count(seq, LAMBDA x : x[field] = seq[i][field])
               IN  /\ other <= mine
                   /\ ( other = mine /\ seq[i][field] # answer[1] ) =>
                         FirstPlace(seq, field, answer[1]) < i

\* C22: most_active_rule of get_statistics is a rule name with the highest
\* number of records over both collections, among several the one whose
\* first record is earliest in the comments followed by the DMs, and it is
\* null only when both collections are empty; likewise most_active_account
\* for the target accounts.
C22_MostActiveFirstOfHighest ==
    StatsAnswered =>
        /\ IsMostActive(last.result.most_active_rule, CombinedSnapshot,
                        "rule_name")
        /\ IsMostActive(last.result.most_active_account, CombinedSnapshot,
                        "target_account")

\* the rule names of the records of both collections
RuleNames == {CombinedSnapshot[i].rule_name : i \in 1..Len(CombinedSnapshot)}

\* get_stats_by_rule answered
ByRuleAnswered == last.op = "by_rule" /\ last.status = 200

\* C23: active_rules of get_statistics is the number of distinct rule names
\* over the records of both collections, and is the total_rules and the
\* number of summaries that get_stats_by_rule returns on the same store.
C23_ActiveRulesDistinctNames ==
    /\ StatsAnswered =>
          /\ last.result.active_rules = Cardinality(RuleNames)
          /\ last.result.active_rules =
                RuleStats(Values(comment_logs_db),
                          Values(dm_logs_db)).total_rules
          /\ last.result.active_rules =
                Len(RuleStats(Values(comment_logs_db),
                              Values(dm_logs_db)).rule_stats)
    /\ ByRuleAnswered =>
          /\ last.result.total_rules = Cardinality(RuleNames)
          /\ Len(last.result.rule_stats) = Cardinality(RuleNames)
          /\ last.result.total_rules =
                Statistics(Values(comment_logs_db), Values(dm_logs_db),
                           utcnow).active_rules

\* get_daily_stats answered a request for a number of days it accepts
DailyAnswered == last.op = "daily" /\ last.status = 200

\* the date text of day number d
DayName(d) == <<Digits[(d \div 10) + 1], Digits[(d % 10) + 1]>>

\* the day number of the clock
Today == now \div TicksPerDay

\* C24: get_daily_stats(N) returns exactly N buckets, the p-th of them for
\* the day N - p days before today, so that the dates are consecutive, in
\* strictly increasing order, and the last one is today.
C24_OneBucketPerDay ==
    DailyAnswered =>
        LET buckets == last.result.daily_stats
            N == last.days
        IN  /\ last.result.days = N
            /\ Len(buckets) = N
            /\ \A p \in 1..Len(buckets) :
                  buckets[p].date = DayName(Today - (N - p))
            /\ \A p \in 1..(Len(buckets) - 1) :
                  StrLess(buckets[p].date, buckets[p + 1].date)

\* the sum of field over the buckets
BucketSum(buckets, field) ==
    Cardinality({<<p, k>> \in (1..Len(buckets)) \X (1..(MaxStore + 1)) :
                    k <= buckets[p][field]})

\* the day number of a stored timestamp
DayOf(text) == fromisoformat(text).at \div TicksPerDay

\* C25: the comment counts of the buckets of get_daily_stats(N) add up to the
\* number of comments whose timestamp is on one of the N days that end
\* today, likewise the DM counts; each bucket counts the records of its own
\* day, so a record is counted once; and the total of a bucket is its
\* comments plus its dms.
C25_BucketsSumToHorizon ==
    DailyAnswered =>
        LET buckets == last.result.daily_stats
            N == last.days
            comments == Values(comment_logs_db)
            dms == Values(dm_logs_db)
            InHorizon(text) == DayOf(text) > Today - N /\ DayOf(text) <= Today
        IN  /\ BucketSum(buckets, "comments") =
                  Count(comments, LAMBDA x : InHorizon(x.timestamp))
            /\ BucketSum(buckets, "dms") =
                  Count(dms, LAMBDA x : InHorizon(x.sent_at))
            /\ \A p \in 1..Len(buckets) :
                  /\ buckets[p].comments =
                        Count(comments, LAMBDA x :
                                  DayName(DayOf(x.timestamp)) = buckets[p].date)
                  /\ buckets[p].dms =
                        Count(dms, LAMBDA x :
                                  DayName(DayOf(x.sent_at)) = buckets[p].date)
                  /\ buckets[p].total = buckets[p].comments + buckets[p].dms

\* rate is successful / total x 100, or 0 when total is 0
IsPercentOf(rate, successful, total) ==
    IF total = 0 THEN rate.num = 0
    ELSE rate.num * total = 100 * successful * rate.den

\* C26: get_stats_by_rule returns one summary for each distinct rule name;
\* its total_comments is the number of comments with that rule name,
\* successful_comments the number of those with reply_sent true, total_dms
\* the number of DMs with that rule name, successful_dms the number of those
\* with status delivered, each success rate successful / total x 100 or 0
\* when the total is 0; and the total_comments of all summaries add up to the
\* size of the comment collection.
C26_RuleSummaries ==
    ByRuleAnswered =>
        LET stats == last.result.rule_stats
            comments == Values(comment_logs_db)
            dms == Values(dm_logs_db)
        IN  /\ {stats[p].rule_name : p \in 1..Len(stats)} = RuleNames
            /\ \A p, r \in 1..Len(stats) :
                  stats[p].rule_name = stats[r].rule_name => p = r
            /\ \A p \in 1..Len(stats) :
                  LET named(x) == x.rule_name = stats[p].rule_name
                  IN  /\ stats[p].total_comments = Count(comments, named)
                      /\ stats[p].successful_comments =
                            Count(comments, LAMBDA x : named(x) /\ x.reply_sent)
                      /\ stats[p].total_dms = Count(dms, named)
                      /\ stats[p].successful_dms =
                            Count(dms, LAMBDA x :
                                      named(x) /\ x.status = "delivered")
                      /\ IsPercentOf(stats[p].comment_success_rate,
                                     stats[p].successful_comments,
                                     stats[p].total_comments)
                      /\ IsPercentOf(stats[p].dm_success_rate,
                                     stats[p].successful_dms,
                                     stats[p].total_dms)
            /\ BucketSum(stats, "total_comments") = Len(comments)

\* summaries of two rules: one with two comments of which one was answered,
\* one with a DM and no comment
C26_Witness ==
    /\ ByRuleAnswered
    /\ \E p, r \in 1..Len(last.result.rule_stats) :
          /\ p # r
          /\ last.result.rule_stats[p].total_comments = 2
          /\ last.result.rule_stats[p].successful_comments = 1
          /\ last.result.rule_stats[r].total_comments = 0
          /\ last.result.rule_stats[r].total_dms = 1

\* every item of db that is still in after has the record it had, and the
\* items that stayed are in the order they were in
Kept(db, after) ==
    IF after = db THEN TRUE
    ELSE /\ \A i \in 1..Len(db), j \in 1..Len(after) :
               db[i].key = after[j].key => db[i].val = after[j].val
         /\ \A i1, i2 \in 1..Len(db), j1, j2 \in 1..Len(after) :
               (db[i1].key = after[j1].key /\ db[i2].key = after[j2].key
                  /\ i1 < i2) => j1 < j2

\* a step of one of the five reading handlers that answers
ReadStep ==
    /\ last' # last
    /\ \/ last'.op = "query_comments" /\ get_comment_logs(UnfilteredComments)
       \/ last'.op = "query_dms" /\ get_dm_logs(UnfilteredDMs)
       \/ last'.op = "stats" /\ get_statistics
       \/ last'.op = "daily" /\ get_daily_stats(DefaultDays)
       \/ last'.op = "by_rule" /\ get_stats_by_rule

\* C27: stored records are never updated in place: a step of
\* get_comment_logs, get_dm_logs, get_statistics, get_daily_stats or
\* get_stats_by_rule leaves both collections as they were (keys, records,
\* order), and every step of any handler leaves each record that stays in
\* its collection with the fields it had and in its place among the records
\* that stay.
C27_NeverUpdatedInPlace ==
    /\ [][ReadStep =>
            comment_logs_db' = comment_logs_db /\ dm_logs_db' = dm_logs_db]_vars
    /\ [][Kept(comment_logs_db, comment_logs_db')
            /\ Kept(dm_logs_db, dm_logs_db')]_vars

\* a reading handler answered while a collection holds a record and a record
\* stored earlier is gone
C27_Witness ==
    /\ last.op \in {"query_comments", "query_dms", "stats", "daily", "by_rule"}
    /\ last.status = 200
    /\ Len(comment_logs_db) + Len(dm_logs_db) >= 1
    /\ \E k \in issued : k \notin Keys(comment_logs_db) \cup Keys(dm_logs_db)

\* C28: a DM query whose only filter is the status filter success matches
\* exactly the DMs with status delivered, the records get_statistics and
\* get_stats_by_rule count as successful DMs: its total is their number and
\* its items are among them.
C28_DMSuccessIsDelivered ==
    ( /\ Answered
      /\ last.op = "query_dms"
      /\ OnlyStatusFilter(last.q)
      /\ last.q.status_filter = "success" ) =>
        LET delivered == SelectSeq(QueriedValues,
                                   LAMBDA x : x.status = "delivered")
        IN  /\ filter_by_status(QueriedValues, "success", "dm") = delivered
            /\ last.result.total = Len(delivered)
            /\ Range(last.result.items) \subseteq Range(delivered)

\* the step that answers the page after the one in last, of the same query
NextPageStep ==
    /\ Answered
    /\ last'.op = last.op
    /\ last'.status = 200
    /\ last'.q = [last.q EXCEPT !.skip = last.q.skip + last.q.limit]

\* the page in last and the page that follows it are disjoint, they are
\* consecutive segments of the sorted matched sequence, the total stays, and
\* the next page holds records exactly when has_more said so
PagesFollow ==
    LET matched == Sort(Filtered(QueriedValues, QueriedType, last.q, utcnow),
                        last.q.sort_by, last.q.sort_order = "desc")
        ids(items) == {items[i].id : i \in 1..Len(items)}
    IN  /\ last'.result.total = last.result.total
        /\ last.result.total = Len(matched)
        /\ ids(last.result.items) \cap ids(last'.result.items) = {}
        /\ last.result.items \o last'.result.items
              = Slice(matched, last.q.skip, 2 * last.q.limit)
        /\ last.result.has_more <=> last'.result.items # << >>

\* C29, as claimed: while the store is unchanged, the pages of one query at
\* skip 0, L, 2L, ... are disjoint, each page and the next are consecutive
\* segments of the one sorted matched sequence (so the pages together are
\* that sequence), and the page with has_more false is the last page that
\* holds records, or the first page.
C29_PagesCoverMatched == [][NextPageStep => PagesFollow]_vars

\* every request of the paging so far fell on the day the clock started in
SameDay == StartOfDay(utcnow).at = PagingStart

\* every request of the paging so far was served at the same clock reading
SameClock == now = PagingStart

\* C29, amended: the same, for a query without a date filter, for a today
\* query whose pages are all requested on the same UTC day, and for any
\* query whose pages are all served at the same clock reading.
C29_PagesCoverMatchedWithinDay ==
    [][( /\ NextPageStep
         /\ IF last.q.date_filter = "all" THEN TRUE
            ELSE IF last.q.date_filter = "today" THEN SameDay
            ELSE SameClock )
          => PagesFollow]_vars

\* the second page of a today query, requested later on the same day, holds
\* the last matched record
C29_Witness ==
    /\ Answered
    /\ last.q.date_filter = "today"
    /\ last.q.skip = 1
    /\ last.q.limit = 1
    /\ last.result.total = 2
    /\ Len(last.result.items) = 1
    /\ ~last.result.has_more
    /\ now > PagingStart
    /\ SameDay

\* the count the newest bucket of the daily answer in last holds, 0 when the
\* answer holds no bucket
NewestBucket(field) ==
    IF last.result.daily_stats = << >> THEN 0
    ELSE last.result.daily_stats[Len(last.result.daily_stats)][field]

\* what get_statistics answers on the store and at the clock of the state
StatisticsNow == Statistics(Values(comment_logs_db), Values(dm_logs_db), utcnow)

\* C30, as claimed: for the same store and the same clock, the comments and
\* dms counts of the newest bucket of get_daily_stats equal the
\* today_comments and today_dms_sent of get_statistics.
C30_NewestBucketIsToday ==
    DailyAnswered =>
        /\ NewestBucket("comments") = StatisticsNow.today_comments
        /\ NewestBucket("dms") = StatisticsNow.today_dms_sent

\* no stored record is dated at or after the start of tomorrow
NoneAfterToday ==
    LET tomorrow == StartOfDay(utcnow).at + TicksPerDay
    IN  /\ \A i \in 1..Len(comment_logs_db) :
              fromisoformat(comment_logs_db[i].val.timestamp).at < tomorrow
        /\ \A i \in 1..Len(dm_logs_db) :
              fromisoformat(dm_logs_db[i].val.sent_at).at < tomorrow

\* C30, amended: the same, when no stored record is dated at or after the
\* start of tomorrow (the count of the newest bucket taken as 0 when the
\* answer holds no bucket).
C30_NewestBucketIsTodayUnlessLater ==
    ( DailyAnswered /\ NoneAfterToday ) =>
        /\ NewestBucket("comments") = StatisticsNow.today_comments
        /\ NewestBucket("dms") = StatisticsNow.today_dms_sent

\* a series of several days whose newest bucket counts a comment and a DM
\* while the store holds an older record too
C30_Witness ==
    /\ DailyAnswered
    /\ NoneAfterToday
    /\ Len(last.result.daily_stats) >= 2
    /\ NewestBucket("comments") = 1
    /\ NewestBucket("dms") = 1
    /\ Len(comment_logs_db) + Len(dm_logs_db) = 3

====
